---- MODULE Spec2Model ----
(***************************************************************************)
(* Model of the stock-forecasting pipeline (mlops_stock): the feature      *)
(* engine (features/build_features.py), the three batch stages             *)
(* download_data / build_features / train_model with their optional S3     *)
(* mirroring, the predictor (models/predict.py) and the FastAPI serving    *)
(* layer (serve/app.py).                                                   *)
(*                                                                         *)
(* Numbers.  A cell of a table is a record [k, n, d]:                      *)
(*    k = "nan"  the pandas NaN (n = 0, d = 1),                            *)
(*    k = "num"  the rational n/d (d > 0),                                 *)
(*    k = "mid"  an RSI value strictly between 0 and 100 whose magnitude   *)
(*               is not tracked (Wilder smoothing has denominators 14^t).  *)
(* Input prices are integers, so every derived value the code computes is  *)
(* a rational; NaN-ness, which is what dropna and the warm-up windows are  *)
(* about, is exact.                                                        *)
(***************************************************************************)
EXTENDS Integers, Sequences, FiniteSets, TLC

VARIABLES
    callerDf,      \* the table a caller of create_features holds
    featRet,       \* what the last create_features call gave back
    rawFile,       \* data/raw/stock_data.csv        ("absent", "csv" or "corrupt")
    featFile,      \* data/processed/features.csv
    modelFile,     \* models/baseline_model.pkl
    last,          \* the last pipeline stage run: its arguments, locals, outcome
    _model,        \* serve/app.py: the global model cache
    resp           \* the last HTTP request served and its response

vars == <<callerDf, featRet, rawFile, featFile, modelFile, last, _model, resp>>

-----------------------------------------------------------------------------
(* Bounds of the model *)

\* row counts 1..MaxRows of the tables given to create_features
MaxRows == 34
\* rows of the short provider table (every derived window still warming up)
SmallRows == 12
\* rows of the medium provider table (a few rows past the 30-row window)
MidRows == 33
\* the row of a provider table whose Volume is missing, when it has such a row
HoleRow == 32
\* test_size is drawn from k/TestSizeDen, 0 < k < TestSizeDen
TestSizeDen == 10
\* row counts 1..MaxTrainRows of the feature tables of the trainer's fixture
MaxTrainRows == 8
\* bits kept before and after the binary point of a float (row counts stay
\* below 2^IntBits; 2^-FracBits is below the last bit of every float that occurs)
IntBits == 8
FracBits == 60

(* Program constants *)
WinMA5 == 5
WinMA10 == 10
WinMA30 == 30
WinRSI == 14
WinStoch == 9
WinStochSmooth == 6
ExampleRows == 100
BasePrice == 150
\* significant bits of a Python float
MantBits == 53

-----------------------------------------------------------------------------
(* Cells *)

NaN == [k |-> "nan", n |-> 0, d |-> 1]
Mid == [k |-> "mid", n |-> 0, d |-> 1]
Num(v) == [k |-> "num", n |-> v, d |-> 1]
Abs(x) == IF x < 0 THEN -x ELSE x

RECURSIVE GCD(_, _)
GCD(a, b) == IF b = 0 THEN a ELSE GCD(b, a % b)

\* the rational n/d in lowest terms (d > 0)
Rat(n, d) ==
    LET g == GCD(Abs(n), d)
    IN  [k |-> "num", n |-> n \div g, d |-> d \div g]

IsNaN(c) == c.k = "nan"

\* float division as numpy does it: 0/0 is NaN.  x/0 with x # 0 (inf) does not
\* arise: every table has Low <= Close <= High and Close > 0.
Div(n, d) == IF d = 0 THEN NaN ELSE IF d < 0 THEN Rat(-n, -d) ELSE Rat(n, d)

RatAdd(a, b) == Rat(a.n * b.d + b.n * a.d, a.d * b.d)

Range(s) == {s[i] : i \in DOMAIN s}

-----------------------------------------------------------------------------
(* Tables (pandas DataFrame): the ordered list of column names, the dates  *)
(* of the rows in order (the index) and, per column, its cells in row      *)
(* order.                                                                  *)

\* a sequence given as a function on 1..n, evaluated once
Strict(s) == SubSeq(s, 1, Len(s))

NoTable == [cols |-> <<>>, dates |-> <<>>, data |-> <<>>]

NRows(t) == Len(t.dates)

HasCol(t, c) == c \in Range(t.cols)

\* df[c]
Col(t, c) == t.data[c]

\* row i of the table: its date and its cell in every column
Row(t, i) == [date |-> t.dates[i], v |-> [c \in Range(t.cols) |-> t.data[c][i]]]

\* df[c] = s : replaces the column when it exists, appends it otherwise
SetCol(t, c, s) ==
    [cols |-> IF HasCol(t, c) THEN t.cols ELSE Append(t.cols, c),
     dates |-> t.dates,
     data |-> [x \in Range(t.cols) \cup {c} |-> IF x = c THEN s ELSE t.data[x]]]

\* the rows idx[1], idx[2], ... of t
Take(t, idx) ==
    [cols |-> t.cols,
     dates |-> Strict([j \in 1..Len(idx) |-> t.dates[idx[j]]]),
     data |-> [c \in Range(t.cols) |->
                 Strict([j \in 1..Len(idx) |-> t.data[c][idx[j]]])]]

Iota(n) == Strict([i \in 1..n |-> i])

RowHasNaN(t, i) == \E c \in Range(t.cols) : IsNaN(t.data[c][i])

\* dropna(subset=["Close"]): drops only the rows whose Close is NaN
dropna_close(t) ==
    Take(t, SelectSeq(Iota(NRows(t)),
                      LAMBDA i : ~(HasCol(t, "Close") /\ IsNaN(t.data["Close"][i]))))

\* dropna(how="all"): drops only the rows whose every cell is NaN
dropna_all(t) ==
    Take(t, SelectSeq(Iota(NRows(t)),
                      LAMBDA i : \E c \in Range(t.cols) : ~IsNaN(t.data[c][i])))

\* DataFrame.dropna(): drops every row that has a NaN in any column and keeps
\* the others in their order
dropna(t) == Take(t, SelectSeq(Iota(NRows(t)), LAMBDA i : ~RowHasNaN(t, i)))

\* df.iloc[lo-1 : hi]
Slice(t, lo, hi) == Take(t, SubSeq(Iota(NRows(t)), lo, hi))

\* df[fl]: the columns of fl, in the order of fl
Select(t, fl) ==
    [cols |-> fl, dates |-> t.dates, data |-> [c \in Range(fl) |-> t.data[c]]]

-----------------------------------------------------------------------------
(* The raw tables the data provider returns (yfinance, auto_adjust=False). *)
(* Low <= Close <= High and Close > 0 in every row; only Volume may be     *)
(* missing.  pat is the price pattern: "zigzag" moves up and down,         *)
(* "rising" never falls, "flat" never moves (High = Low: degenerate).      *)

Patterns == {"zigzag", "rising", "flat"}

ClosePrice(pat, i) ==
    CASE pat = "zigzag" -> BasePrice + 2 * (i % 3)
      [] pat = "rising" -> BasePrice + i
      [] OTHER          -> BasePrice

Spread(pat) == IF pat = "flat" THEN 0 ELSE 1

RawCols(adj) ==
    IF adj THEN <<"Adj Close", "Close", "High", "Low", "Open", "Volume">>
    ELSE <<"Open", "High", "Low", "Close", "Volume">>

RawCell(pat, hole, i, c) ==
    CASE c = "High"   -> Num(ClosePrice(pat, i) + Spread(pat))
      [] c = "Low"    -> Num(ClosePrice(pat, i) - Spread(pat))
      [] c = "Volume" -> IF i = hole THEN NaN ELSE Num(1000 + i)
      [] OTHER        -> Num(ClosePrice(pat, i))

MkRaw(n, pat, adj, hole) ==
    [cols |-> RawCols(adj),
     dates |-> Iota(n),
     data |-> [c \in Range(RawCols(adj)) |->
                 Strict([i \in 1..n |-> RawCell(pat, hole, i, c)])]]

-----------------------------------------------------------------------------
(* Feature engine: create_features *)

\* Series.pct_change(): Close[t]/Close[t-1] - 1, NaN in the first row
pct_change(s) ==
    Strict([i \in DOMAIN s |->
       IF i = 1 \/ IsNaN(s[i]) \/ IsNaN(s[i-1]) THEN NaN
       ELSE Div(s[i].n * s[i-1].d - s[i-1].n * s[i].d, s[i-1].n * s[i].d)])

RECURSIVE WinSum(_, _, _)
WinSum(s, lo, hi) ==
    IF lo > hi THEN Num(0)
    ELSE IF lo = hi THEN s[lo]
    ELSE LET mid == (lo + hi) \div 2
         IN  RatAdd(WinSum(s, lo, mid), WinSum(s, mid + 1, hi))

WinHasNaN(s, lo, hi) == \E j \in lo..hi : IsNaN(s[j])

\* a rolling mean that is still NaN in row w
rolling_mean_late(s, w) ==
    Strict([i \in DOMAIN s |->
       IF i <= w \/ WinHasNaN(s, i - w + 1, i) THEN NaN
       ELSE LET sum == WinSum(s, i - w + 1, i)
            IN  Div(sum.n, sum.d * w)])

\* Series.rolling(w).mean(), min_periods = w: NaN until w rows are available
\* and whenever the window holds a NaN
rolling_mean(s, w) ==
    Strict([i \in DOMAIN s |->
       IF i < w \/ WinHasNaN(s, i - w + 1, i) THEN NaN
       ELSE LET sum == WinSum(s, i - w + 1, i)
            IN  Div(sum.n, sum.d * w)])

\* a < b, a <= b for "num" cells
RatLt(a, b) == a.n * b.d < b.n * a.d

\* Series.rolling(w).min() / .max(), min_periods = w
rolling_min(s, w) ==
    Strict([i \in DOMAIN s |->
       IF i < w \/ WinHasNaN(s, i - w + 1, i) THEN NaN
       ELSE CHOOSE m \in {s[j] : j \in (i - w + 1)..i} :
              \A j \in (i - w + 1)..i : ~RatLt(s[j], m)])

rolling_max(s, w) ==
    Strict([i \in DOMAIN s |->
       IF i < w \/ WinHasNaN(s, i - w + 1, i) THEN NaN
       ELSE CHOOSE m \in {s[j] : j \in (i - w + 1)..i} :
              \A j \in (i - w + 1)..i : ~RatLt(m, s[j])])

\* ta.momentum.RSIIndicator(close, window).rsi().  diff = close.diff(1);
\* up = diff.where(diff > 0, 0.0) and down = -diff.where(diff < 0, 0.0), so row 1
\* (whose diff is NaN) counts as an observation 0.0; both are smoothed by
\* ewm(alpha = 1/window, min_periods = window, adjust = False), which is NaN until
\* `window` observations exist, that is in rows 1..window-1.  Afterwards the RSI
\* is 100 when the smoothed loss is 0 (no fall so far), 0 when the smoothed gain
\* is 0 (no rise so far), and strictly between otherwise.
rsi(s, w) ==
    Strict([i \in DOMAIN s |->
       IF i < w THEN NaN
       ELSE LET fell == \E j \in 2..i : RatLt(s[j], s[j-1])
                rose == \E j \in 2..i : RatLt(s[j-1], s[j])
            IN  IF ~fell THEN Num(100) ELSE IF ~rose THEN Num(0) ELSE Mid])

\* ta.momentum.StochasticOscillator(high, low, close, window, smooth_window):
\* stoch() = 100 * (close - smin) / (smax - smin) with smin / smax the rolling
\* low / high over `window` rows
stoch(high, low, close, w) ==
    LET smin == rolling_min(low, w)
        smax == rolling_max(high, w)
    IN  Strict([i \in DOMAIN close |->
           IF IsNaN(smin[i]) \/ IsNaN(smax[i]) \/ IsNaN(close[i]) THEN NaN
           ELSE Div(100 * (close[i].n - smin[i].n), smax[i].n - smin[i].n)])

\* stoch_signal() = stoch().rolling(smooth_window).mean()
stoch_signal(high, low, close, w, sw) == rolling_mean(stoch(high, low, close, w), sw)

\* The columns create_features reads: a missing one raises KeyError
ReadCols == {"Close", "High", "Low"}

DerivedCols == <<"Return", "MA5", "MA10", "MA30", "RSI", "STOCH_K", "STOCH_D">>

\* Lines 33-49 of create_features: the seven assignments df[c] = ..., in order;
\* KeyError when Close, High or Low is missing.
derive(df) ==
    IF ~(ReadCols \subseteq Range(df.cols))
    THEN [err |-> "KeyError", df |-> NoTable]
    ELSE
    LET close == Col(df, "Close")
        high  == Col(df, "High")
        low   == Col(df, "Low")
        d1 == SetCol(df, "Return", pct_change(close))
        d2 == SetCol(d1, "MA5", rolling_mean(close, WinMA5))
        d3 == SetCol(d2, "MA10", rolling_mean(close, WinMA10))
        d4 == SetCol(d3, "MA30", rolling_mean(close, WinMA30))
        d5 == SetCol(d4, "RSI", rsi(close, WinRSI))
        d6 == SetCol(d5, "STOCH_K", stoch(high, low, close, WinStoch))
        d7 == SetCol(d6, "STOCH_D",
                     stoch_signal(high, low, close, WinStoch, WinStochSmooth))
    IN  [err |-> "none", df |-> d7]

\* create_features without df = df.copy(): the assignments go to the caller's
\* table
create_features_nocopy(df) ==
    LET r == derive(df)
    IN  [err |-> r.err, df |-> r.df, arg |-> df,
         caller |-> IF r.err = "none" THEN r.df ELSE df]

\* create_features(df): df = df.copy() first, so the assignments go to the copy.
\* Gives the error raised, the table returned, the table passed (arg) and the
\* caller's table after the call.
create_features(df) ==
    LET r == derive(df)
    IN  [err |-> r.err, df |-> r.df, arg |-> df, caller |-> df]

-----------------------------------------------------------------------------
(* Files.  A CSV file holds the header and one line per row: the date and  *)
(* the fields in header order (DataFrame.to_csv / pd.read_csv(index_col=0, *)
(* parse_dates=True)).  A file is absent, readable, or corrupt (truncated  *)
(* by a failed write, or otherwise not parseable).                         *)

to_csv(t) ==
    [header |-> t.cols,
     lines |-> Strict([i \in 1..NRows(t) |->
                  [date |-> t.dates[i],
                   fields |-> Strict([j \in 1..Len(t.cols) |-> t.data[t.cols[j]][i]])]])]

read_csv(csv) ==
    [cols |-> csv.header,
     dates |-> Strict([i \in 1..Len(csv.lines) |-> csv.lines[i].date]),
     data |-> [c \in Range(csv.header) |->
                 LET j == CHOOSE j \in 1..Len(csv.header) : csv.header[j] = c
                 IN  Strict([i \in 1..Len(csv.lines) |-> csv.lines[i].fields[j]])]]

NoCsv == to_csv(NoTable)
Absent == [st |-> "absent", body |-> NoCsv]
Corrupt == [st |-> "corrupt", body |-> NoCsv]
CsvFile(t) == [st |-> "csv", body |-> to_csv(t)]

\* A fitted model (XGBRegressor): what is recorded of it is feature_names_in_,
\* the columns of the frame it was fitted on, in order.
None == [none |-> TRUE, feature_names_in_ |-> <<>>]
Fitted(fl) == [none |-> FALSE, feature_names_in_ |-> fl]

NoPkl == [st |-> "absent", model |-> None]
CorruptPkl == [st |-> "corrupt", model |-> None]
\* pickle.dump(model, f)
PklFile(m) == [st |-> "pkl", model |-> m]

\* a failed save leaves the target as it was or truncated
AfterFailedSave(old, broken) == {old, broken}

-----------------------------------------------------------------------------
(* Pipeline stages *)

\* What the provider returns in the runs of the pipeline
ProviderTables ==
    { MkRaw(SmallRows, "flat", FALSE, 0),
      MkRaw(MidRows, "zigzag", TRUE, HoleRow),
      MkRaw(MidRows, "rising", FALSE, 0) }

\* What the buckets may hold (they are written by other runs as well)
RemoteRaw == { MkRaw(MidRows, "zigzag", FALSE, 0) }
RemoteFeatures == { derive(MkRaw(MidRows, "zigzag", FALSE, HoleRow)).df }

DefaultFeatures == <<"Close", "Return", "MA5", "MA10", "MA30", "RSI", "STOCH_D">>

\* the features_list arguments tried; <<>> stands for None (the default)
FeatureLists ==
    { <<>>, <<"Close">>, <<"Close", "Volume">>, <<"Adj Close", "Close">> }

TestSizes == 1..(TestSizeDen - 1)

NoLast ==
    [stage |-> "none", status |-> "none", err |-> "none",
     dl |-> "none", src |-> "none", saved |-> FALSE, up |-> "none",
     loaded |-> NoTable, ret |-> NoTable, dropna |-> FALSE, dropped |-> 0,
     features_list |-> <<>>, test_size |-> 0, split_done |-> FALSE,
     data |-> NoTable, split_idx |-> 0,
     X_train |-> NoTable, y_train |-> NoTable,
     X_test |-> NoTable, y_test |-> NoTable,
     model |-> None, s3 |-> FALSE, latest_features |-> NoTable]

\* a local read whose error is caught and an empty table used instead
LoadLocalSwallowing(file) ==
    IF file.st = "csv"
    THEN [err |-> "none", df |-> read_csv(file.body), src |-> "local"]
    ELSE [err |-> "none", df |-> NoTable, src |-> "local"]

\* The load at the head of build_features and train_model.  With S3 enabled the
\* object is downloaded to /tmp and read; any exception there is logged and the
\* local path is read instead.  dl = "ok": the download and its read succeeded
\* and gave `remote`.
LoadLocal(file) ==
    CASE file.st = "absent"  -> [err |-> "FileNotFoundError", df |-> NoTable, src |-> "local"]
      [] file.st = "corrupt" -> [err |-> "ParserError", df |-> NoTable, src |-> "local"]
      [] OTHER               -> [err |-> "none", df |-> read_csv(file.body), src |-> "local"]

Load(s3, dl, remote, file) ==
    IF s3 /\ dl = "ok"
    THEN [err |-> "none", df |-> remote, src |-> "s3"]
    ELSE LoadLocal(file)

\* an upload whose exception is not caught
UploadErrRaises(s3, up) == IF s3 /\ up = "fail" THEN "S3UploadFailedError" ELSE "none"

\* The upload at the tail of every stage: tried only with S3 enabled, and an
\* exception in it is logged and swallowed.  Gives the error the stage raises.
UploadErr(s3, up) == "none"

Outcomes(s3) == IF s3 THEN {"ok", "fail"} ELSE {"none"}

\* Series.shift(1): row i gets the value of row i-1, the first row NaN
shift_forward(s) == Strict([i \in DOMAIN s |-> IF i = 1 THEN NaN ELSE s[i - 1]])

\* Series.shift(-1): row i gets the value of row i+1, the last row NaN
shift_back(s) == Strict([i \in DOMAIN s |-> IF i = Len(s) THEN NaN ELSE s[i + 1]])

\* Python floats are IEEE-754 doubles.  A non-negative double below 2^IntBits is
\* held here as its binary expansion: IntBits bits before the point and FracBits
\* after it, most significant first, of which at most MantBits are significant.
\* Every operation computes the exact result and rounds it to the nearest
\* double, ties to even.
FixLen == IntBits + FracBits

NoBits == Strict([i \in 1..FixLen |-> 0])

\* 2^n mod q
RECURSIVE PowMod(_, _)
PowMod(n, q) ==
    IF n = 0 THEN 1 % q
    ELSE LET h == PowMod(n \div 2, q)
         IN  (h * h * (IF n % 2 = 1 THEN 2 ELSE 1)) % q

\* bit i after the point of r/q (r < q), and whether anything is left after
\* bit n
DivBit(r, q, i) == (2 * ((r * PowMod(i - 1, q)) % q)) \div q
DivRest(r, q, n) == (r * PowMod(n, q)) % q # 0

\* b + 2^(FixLen - j): one unit added at bit j
IncAt(b, j) ==
    LET z == CHOOSE i \in 1..j : b[i] = 0 /\ \A m \in (i + 1)..j : b[m] = 1
    IN  [m \in 1..FixLen |-> IF m = z THEN 1 ELSE IF m > z /\ m <= j THEN 0 ELSE b[m]]

\* the double nearest to the exact value b (+ something below its last bit when
\* sticky), ties to even
RoundToDouble(b, sticky) ==
    IF \A i \in 1..FixLen : b[i] = 0 THEN b
    ELSE
    LET p == CHOOSE i \in 1..FixLen : b[i] = 1 /\ \A m \in 1..(i - 1) : b[m] = 0
        lsb == p + MantBits - 1
        bit(i) == IF i <= FixLen THEN b[i] ELSE 0
        rest == sticky \/ \E i \in (lsb + 2)..FixLen : b[i] = 1
        up == bit(lsb + 1) = 1 /\ (rest \/ bit(lsb) = 1)
        cut == [i \in 1..FixLen |-> IF i > lsb THEN 0 ELSE b[i]]
    IN  IF lsb >= FixLen \/ ~up THEN Strict(cut) ELSE Strict(IncAt(cut, lsb))

\* the float literal d/q (0 < d < q), as Python reads it
Double(d, q) ==
    RoundToDouble(Strict([i \in 1..FixLen |->
                            IF i <= IntBits THEN 0 ELSE DivBit(d, q, i - IntBits)]),
                  DivRest(d, q, FracBits))

\* 1 - x for a double 0 < x < 1
OneMinus(x) ==
    LET t == CHOOSE i \in 1..FixLen : x[i] = 1 /\ \A m \in (i + 1)..FixLen : x[m] = 0
        exact == Strict([i \in 1..FixLen |->
                           IF i <= IntBits \/ i > t THEN 0
                           ELSE IF i = t THEN 1 ELSE 1 - x[i]])
    IN  RoundToDouble(exact, FALSE)

\* a + b, exactly: the carry into bit i is generated at some lower bit j and
\* propagated by every bit between
BitsAdd(a, b) ==
    LET carry(i) == \E j \in (i + 1)..FixLen :
                       /\ a[j] = 1 /\ b[j] = 1
                       /\ \A m \in (i + 1)..(j - 1) : a[m] + b[m] = 1
    IN  Strict([i \in 1..FixLen |-> (a[i] + b[i] + (IF carry(i) THEN 1 ELSE 0)) % 2])

\* 2 * a, exactly
BitsTwice(a) == Strict([i \in 1..FixLen |-> IF i = FixLen THEN 0 ELSE a[i + 1]])

\* n * x, exactly, by the bits of n
RECURSIVE BitsTimes(_, _)
BitsTimes(n, x) ==
    IF n = 0 THEN NoBits
    ELSE LET h == BitsTwice(BitsTimes(n \div 2, x))
         IN  IF n % 2 = 1 THEN BitsAdd(h, x) ELSE h

\* n * x for an int n (converted exactly) and a double x
TimesInt(n, x) == RoundToDouble(BitsTimes(n, x), FALSE)

RECURSIVE BitsValue(_, _)
BitsValue(b, n) == IF n = 0 THEN 0 ELSE 2 * BitsValue(b, n - 1) + b[n]

\* int(x): the integer part
Trunc(x) == BitsValue(x, IntBits)

\* split_idx = int(len(df) * (1 - test_size)) for test_size = k / TestSizeDen
SplitIdx(n, k) == Trunc(TimesInt(n, OneMinus(Double(k, TestSizeDen))))

\* SplitIdx for every row count 0..ExampleRows and every test size, computed once
SplitIdxOf ==
    Strict([k \in 1..(TestSizeDen - 1) |->
              Strict([m \in 1..(ExampleRows + 1) |-> SplitIdx(m - 1, k)])])

\* Lines 59-79 of train_model: the default feature list, the Target column,
\* dropna, the selection of X and y and the split.
TrainPrep(df, features_list, k) ==
    LET fl == IF features_list = <<>> THEN DefaultFeatures ELSE features_list
        bad == [err |-> "KeyError", fl |-> fl, data |-> NoTable, split_idx |-> 0,
                X_train |-> NoTable, y_train |-> NoTable,
                X_test |-> NoTable, y_test |-> NoTable]
    IN  IF ~HasCol(df, "Close") THEN bad
        ELSE
        LET d1 == SetCol(df, "Target", shift_back(Col(df, "Close")))
            d2 == dropna(d1)
        IN  IF ~(Range(fl) \subseteq Range(d2.cols)) THEN bad
            ELSE
            LET X == Select(d2, fl)
                y == Select(d2, <<"Target">>)
                n == NRows(d2)
                split_idx == SplitIdxOf[k][n + 1]
            IN  [err |-> "none", fl |-> fl, data |-> d2, split_idx |-> split_idx,
                 X_train |-> Slice(X, 1, split_idx),
                 y_train |-> Slice(y, 1, split_idx),
                 X_test |-> Slice(X, split_idx + 1, n),
                 y_test |-> Slice(y, split_idx + 1, n)]

\* Lines 86-103 of train_model: fit, predict and the metrics.  The metrics of
\* an empty evaluation set raise ValueError; whether XGBoost fits an empty
\* training set or raises is left open (fit = "ok" / "raise").
FitErr(tp, fit) ==
    IF NRows(tp.X_train) = 0 /\ fit = "raise" THEN "XGBoostError"
    ELSE IF NRows(tp.X_test) = 0 THEN "ValueError"
    ELSE "none"

-----------------------------------------------------------------------------------------------------------------------------------------------------
(* The stages as operations.  Each run is its own process: USE_S3 (with the *)
(* s3_client) is read from the environment when its module is imported, the *)
(* stages run one at a time, and `last` is what the run's caller sees until *)
(* the process exits.  S3s, IOs, ... are the sets the run's inputs and the   *)
(* outcomes of its I/O are drawn from.                                       *)

Idle == last = NoLast

Ended(run, s3, up) ==
    [run EXCEPT !.saved = TRUE, !.up = up, !.err = UploadErr(s3, up),
                !.status = IF UploadErr(s3, up) = "none" THEN "returned" ELSE "raised"]

Raised(run, err) == [run EXCEPT !.status = "raised", !.err = err]

download_data(S3s, Provs, IOs) ==
    /\ Idle
    /\ UNCHANGED <<callerDf, featRet, featFile, modelFile, _model, resp>>
    /\ \E s3 \in S3s, prov \in Provs :
         LET run == [NoLast EXCEPT !.stage = "download", !.s3 = s3]
         IN  IF prov = "raise"
             THEN /\ rawFile' = rawFile
                  /\ last' = Raised(run, "UpstreamError")
             ELSE \E df \in ProviderTables, io \in IOs :
                    IF io = "fail"
                    THEN /\ rawFile' \in AfterFailedSave(rawFile, Corrupt)
                         /\ last' = Raised(run, "OSError")
                    ELSE /\ rawFile' = CsvFile(df)
                         /\ \E up \in Outcomes(s3) :
                              last' = Ended([run EXCEPT !.ret = df], s3, up)

build_features(S3s, IOs) ==
    /\ Idle
    /\ UNCHANGED <<callerDf, featRet, rawFile, modelFile, _model, resp>>
    /\ \E s3 \in S3s, dn \in BOOLEAN, remote \in RemoteRaw :
       \E dl \in Outcomes(s3) :
         LET ld == Load(s3, dl, remote, rawFile)
             cf == create_features(ld.df)
             out == IF dn THEN dropna(cf.df) ELSE cf.df
             run == [NoLast EXCEPT !.stage = "build", !.s3 = s3, !.dl = dl,
                                   !.src = ld.src, !.dropna = dn]
             got == [run EXCEPT !.loaded = ld.df]
         IN  IF ld.err # "none"
             THEN /\ featFile' = featFile
                  /\ last' = Raised(run, ld.err)
             ELSE IF cf.err # "none"
             THEN /\ featFile' = featFile
                  /\ last' = Raised(got, cf.err)
             ELSE \E io \in IOs :
                    IF io = "fail"
                    THEN /\ featFile' \in AfterFailedSave(featFile, Corrupt)
                         /\ last' = Raised(got, "OSError")
                    ELSE /\ featFile' = CsvFile(out)
                         /\ \E up \in Outcomes(s3) :
                              last' = Ended(
                                 [got EXCEPT
                                    !.ret = out,
                                    !.dropped = IF dn
                                                THEN NRows(cf.df) - NRows(out)
                                                ELSE 0],
                                 s3, up)

train_model(S3s, FLs, Ks, IOs) ==
    /\ Idle
    /\ UNCHANGED <<callerDf, featRet, rawFile, featFile, _model, resp>>
    /\ \E s3 \in S3s, fl \in FLs, k \in Ks, remote \in RemoteFeatures :
       \E dl \in Outcomes(s3) :
         LET ld == Load(s3, dl, remote, featFile)
             tp == TrainPrep(ld.df, fl, k)
             run == [NoLast EXCEPT !.stage = "train", !.s3 = s3, !.dl = dl,
                                   !.src = ld.src, !.features_list = fl,
                                   !.test_size = k]
             got == [run EXCEPT !.loaded = ld.df]
             split == [got EXCEPT !.split_done = TRUE,
                                  !.features_list = tp.fl,
                                  !.data = tp.data, !.split_idx = tp.split_idx,
                                  !.X_train = tp.X_train, !.y_train = tp.y_train,
                                  !.X_test = tp.X_test, !.y_test = tp.y_test]
             fitted == [split EXCEPT !.model = Fitted(tp.fl)]
         IN  IF ld.err # "none"
             THEN /\ modelFile' = modelFile
                  /\ last' = Raised(run, ld.err)
             ELSE IF tp.err # "none"
             THEN /\ modelFile' = modelFile
                  /\ last' = Raised(got, tp.err)
             ELSE \E fit \in IF NRows(tp.X_train) = 0 THEN {"ok", "raise"} ELSE {"ok"} :
                    IF FitErr(tp, fit) # "none"
                    THEN /\ modelFile' = modelFile
                         /\ last' = Raised(split, FitErr(tp, fit))
                    ELSE \E io \in IOs :
                           IF io = "fail"
                           THEN /\ modelFile' \in AfterFailedSave(modelFile, CorruptPkl)
                                /\ last' = Raised(fitted, "OSError")
                           ELSE /\ modelFile' = PklFile(Fitted(tp.fl))
                                /\ \E up \in Outcomes(s3) :
                                     last' = Ended(fitted, s3, up)

\* the stage's process ends
StageExit ==
    /\ ~Idle
    /\ last' = NoLast
    /\ UNCHANGED <<callerDf, featRet, rawFile, featFile, modelFile, _model, resp>>

-----------------------------------------------------------------------------
(* Calls of create_features by a caller that keeps its table               *)
(* (tests/test_features.py: test_create_features, test_features_shape)     *)

InputTables ==
    { MkRaw(n, pat, adj, 0) :
        n \in (1..MaxRows) \cup {ExampleRows}, pat \in Patterns, adj \in BOOLEAN }

NoRet == [err |-> "none", df |-> NoTable, arg |-> NoTable, caller |-> NoTable]

FilesAbsent == rawFile = Absent /\ featFile = Absent /\ modelFile = NoPkl

CallerLoads ==
    /\ FilesAbsent /\ Idle
    /\ callerDf = NoTable
    /\ \E t \in InputTables : callerDf' = t
    /\ featRet' = NoRet
    /\ UNCHANGED <<rawFile, featFile, modelFile, last, _model, resp>>

CallCreateFeatures ==
    /\ callerDf # NoTable
    /\ featRet = NoRet
    /\ featRet' = create_features(callerDf)
    /\ callerDf' = featRet'.caller
    /\ UNCHANGED <<rawFile, featFile, modelFile, last, _model, resp>>

CallerDone ==
    /\ callerDf # NoTable
    /\ callerDf' = NoTable
    /\ featRet' = NoRet
    /\ UNCHANGED <<rawFile, featFile, modelFile, last, _model, resp>>

\* The columns an input of create_features is required to hold
RequiredCols == {"Open", "High", "Low", "Close", "Volume"}

\* df.drop(columns=[c])
DropCol(t, c) ==
    [cols |-> SelectSeq(t.cols, LAMBDA x : x # c),
     dates |-> t.dates,
     data |-> [x \in Range(t.cols) \ {c} |-> t.data[x]]]

\* Malformed inputs: a provider table with one of the required columns missing
PartialTables ==
    { DropCol(MkRaw(n, pat, adj, 0), c) :
        n \in (1..SmallRows) \cup {MidRows}, pat \in Patterns, adj \in BOOLEAN,
        c \in RequiredCols }

CallerLoadsPartial ==
    /\ FilesAbsent /\ Idle
    /\ callerDf = NoTable
    /\ \E t \in PartialTables : callerDf' = t
    /\ featRet' = NoRet
    /\ UNCHANGED <<rawFile, featFile, modelFile, last, _model, resp>>

\* test_build_features_saves_file: the input file is written, build_features
\* runs, both files are removed
FixtureWritesRaw ==
    /\ FilesAbsent /\ Idle
    /\ callerDf = NoTable
    /\ \E t \in InputTables : rawFile' = CsvFile(t)
    /\ UNCHANGED <<callerDf, featRet, featFile, modelFile, last, _model, resp>>

Cleanup ==
    /\ Idle
    /\ ~FilesAbsent
    /\ rawFile' = Absent
    /\ featFile' = Absent
    /\ modelFile' = NoPkl
    /\ UNCHANGED <<callerDf, featRet, last, _model, resp>>

-----------------------------------------------------------------------------
(* The trainer's fixture (tests/test_models.py: sample_features_data): a    *)
(* feature table with all twelve columns filled, here with at most one     *)
(* missing cell, written to the feature file before train_model runs.      *)

FixtureCols ==
    <<"Open", "High", "Low", "Close", "Volume", "Return", "MA5", "MA10", "MA30",
      "RSI", "STOCH_K", "STOCH_D">>

FixtureTable(n, hc, hr) ==
    [cols |-> FixtureCols,
     dates |-> Iota(n),
     data |-> [c \in Range(FixtureCols) |->
                 Strict([i \in 1..n |->
                    IF c = hc /\ i = hr THEN NaN ELSE Num(BasePrice + i)])]]

HoleCols == {"Close", "RSI", "Volume", "STOCH_K"}

TrainTables ==
    { FixtureTable(n, hc, hr) : n \in 1..MaxTrainRows, hc \in HoleCols,
                                hr \in 0..MaxTrainRows }
    \cup { derive(MkRaw(ExampleRows, "zigzag", FALSE, 0)).df,
           dropna(derive(MkRaw(ExampleRows, "zigzag", FALSE, 0)).df),
           derive(MkRaw(MidRows, "zigzag", TRUE, HoleRow)).df }

FixtureWritesFeatures ==
    /\ FilesAbsent /\ Idle
    /\ callerDf = NoTable
    /\ \E t \in TrainTables : featFile' = CsvFile(t)
    /\ UNCHANGED <<callerDf, featRet, rawFile, modelFile, last, _model, resp>>

-----------------------------------------------------------------------------
(* Predictor: models/predict.py *)

\* load_model(model_path): FileNotFoundError when the file is absent, the
\* unpickling error when it cannot be read back
load_model(file) ==
    CASE file.st = "absent"  -> [err |-> "FileNotFoundError", model |-> None]
      [] file.st = "corrupt" -> [err |-> "UnpicklingError", model |-> None]
      [] OTHER               -> [err |-> "none", model |-> file.model]

\* model.predict(x)[0]: which model was asked, about which row
NoPred == [names |-> <<>>, date |-> 0, x |-> <<>>]
Predict(m, latest, fl) ==
    [names |-> m.feature_names_in_, date |-> latest.dates[1],
     x |-> [j \in 1..Len(fl) |-> latest.data[fl[j]][1]]]

\* predict_next_day taking the first row: df[features_list].iloc[:1]
predict_next_day_first_row(featF, modelF, features_list) ==
    LET lm == load_model(modelF)
        ld == LoadLocal(featF)
        fl == IF features_list = <<>> THEN lm.model.feature_names_in_
              ELSE features_list
        n  == NRows(ld.df)
        fail(e, k) == [err |-> e, loads |-> k, prediction |-> NoPred,
                       model |-> None, df |-> NoTable, latest |-> NoTable]
    IN  CASE lm.err = "FileNotFoundError" -> fail(lm.err, 0)
          [] lm.err # "none" -> fail(lm.err, 1)
          [] ld.err # "none" -> fail(ld.err, 1)
          [] ~(Range(fl) \subseteq Range(ld.df.cols)) -> fail("KeyError", 1)
          [] Len(fl) # Len(lm.model.feature_names_in_) -> fail("ValueError", 1)
          [] n = 0 -> fail("IndexError", 1)
          [] OTHER -> [err |-> "none", loads |-> 1,
                       prediction |->
                          Predict(lm.model, Slice(Select(ld.df, fl), 1, 1), fl),
                       model |-> lm.model, df |-> ld.df,
                       latest |-> Slice(Select(ld.df, fl), 1, 1)]

\* predict_next_day(features_path, model_path, features_list); <<>> stands for
\* features_list = None.  `loads` counts the reads of the model file; `model`,
\* `df` and `latest` are the locals model, df and latest_features.
predict_next_day(featF, modelF, features_list) ==
    LET lm == load_model(modelF)
        ld == LoadLocal(featF)
        fl == IF features_list = <<>> THEN lm.model.feature_names_in_
              ELSE features_list
        n  == NRows(ld.df)
        fail(e, k) == [err |-> e, loads |-> k, prediction |-> NoPred,
                       model |-> None, df |-> NoTable, latest |-> NoTable]
    IN  CASE lm.err = "FileNotFoundError" -> fail(lm.err, 0)
          [] lm.err # "none" -> fail(lm.err, 1)
          [] ld.err # "none" -> fail(ld.err, 1)
          [] ~(Range(fl) \subseteq Range(ld.df.cols)) -> fail("KeyError", 1)
          [] Len(fl) # Len(lm.model.feature_names_in_) -> fail("ValueError", 1)
          [] n = 0 -> fail("IndexError", 1)
          [] OTHER -> [err |-> "none", loads |-> 1,
                       prediction |->
                          Predict(lm.model, Slice(Select(ld.df, fl), n, n), fl),
                       model |-> lm.model, df |-> ld.df,
                       latest |-> Slice(Select(ld.df, fl), n, n)]

\* python -m mlops_stock.models.predict, or a direct call of predict_next_day:
\* a run of its own, seen by its caller like a stage's.  `features_list` keeps
\* the argument as given (<<>> for None), `model` the model that was loaded,
\* `loaded` the table read and `latest_features` the rows handed to
\* model.predict.
predict_main(FLs) ==
    /\ Idle
    /\ UNCHANGED <<callerDf, featRet, rawFile, featFile, modelFile, _model, resp>>
    /\ \E fl \in FLs :
         LET pn == predict_next_day(featFile, modelFile, fl)
             run == [NoLast EXCEPT !.stage = "predict", !.features_list = fl]
         IN  last' = IF pn.err # "none" THEN Raised(run, pn.err)
                     ELSE [run EXCEPT !.status = "returned", !.model = pn.model,
                                      !.loaded = pn.df,
                                      !.latest_features = pn.latest]

-----------------------------------------------------------------------------
(* Serving layer: serve/app.py *)

NoResp ==
    [op |-> "none", status |-> 0, exc |-> "none", cached |-> FALSE, loads |-> 0,
     file |-> "absent", features |-> <<>>, feature_names |-> <<>>,
     named |-> FALSE, prediction |-> NoPred,
     model_loaded |-> FALSE, model_exists |-> FALSE, features_exist |-> FALSE]

\* Path(p).exists()
Exists(file) == file.st # "absent"

\* The except clauses of predict_next_day_price: FileNotFoundError gives 404,
\* every other Exception (an HTTPException raised in the try block is one)
\* gives 500.
StatusPredict(exc) ==
    CASE exc = "none" -> 200
      [] exc = "FileNotFoundError" -> 404
      [] OTHER -> 500

\* predict_custom without its `except HTTPException: raise` clause
StatusCustomNoReraise(exc) ==
    CASE exc = "none" -> 200
      [] OTHER -> 500

\* The except clauses of predict_custom: an HTTPException is re-raised as it
\* is, every other Exception gives 500.
StatusCustom(exc) ==
    CASE exc = "none" -> 200
      [] exc = "HTTPException404" -> 404
      [] exc = "HTTPException400" -> 400
      [] OTHER -> 500

\* a handler that loads the model file whenever it is there, cached or not
EnsureModelReloading(cache, file) ==
    IF ~Exists(file)
    THEN IF cache # None THEN [err |-> "none", model |-> cache, loads |-> 0]
         ELSE [err |-> "HTTPException404", model |-> None, loads |-> 0]
    ELSE [err |-> load_model(file).err, model |-> load_model(file).model, loads |-> 1]

\* `if _model is None:` at the head of both prediction handlers: the cache
\* after it, the exception raised in it, and the reads of the model file
EnsureModel(cache, file) ==
    IF cache # None THEN [err |-> "none", model |-> cache, loads |-> 0]
    ELSE IF ~Exists(file) THEN [err |-> "HTTPException404", model |-> None, loads |-> 0]
    ELSE [err |-> load_model(file).err, model |-> load_model(file).model, loads |-> 1]

Started == resp.op # "none"

\* @app.on_event("startup")
load_model_on_startup ==
    /\ ~Started
    /\ _model' = IF Exists(modelFile) THEN load_model(modelFile).model ELSE None
    /\ resp' = [NoResp EXCEPT !.op = "startup",
                              !.loads = IF Exists(modelFile) THEN 1 ELSE 0,
                              !.file = modelFile.st]
    /\ UNCHANGED <<callerDf, featRet, rawFile, featFile, modelFile, last>>

\* GET /
root ==
    /\ Started
    /\ resp' = [NoResp EXCEPT !.op = "root", !.status = 200, !.file = modelFile.st,
                              !.cached = _model # None]
    /\ UNCHANGED <<callerDf, featRet, rawFile, featFile, modelFile, last, _model>>

\* GET /health
health_check ==
    /\ Started
    /\ resp' = [NoResp EXCEPT !.op = "health", !.status = 200,
                              !.file = modelFile.st, !.cached = _model # None,
                              !.model_loaded = _model # None,
                              !.model_exists = Exists(modelFile),
                              !.features_exist = Exists(featFile)]
    /\ UNCHANGED <<callerDf, featRet, rawFile, featFile, modelFile, last, _model>>

\* GET /predict
predict_next_day_price ==
    /\ Started
    /\ LET em == EnsureModel(_model, modelFile)
           pn == predict_next_day(featFile, modelFile, <<>>)
           exc == IF em.err # "none" THEN em.err ELSE pn.err
       IN  /\ _model' = em.model
           /\ resp' = [NoResp EXCEPT
                         !.op = "predict", !.file = modelFile.st,
                         !.cached = _model # None,
                         !.features_exist = Exists(featFile),
                         !.exc = exc, !.status = StatusPredict(exc),
                         !.loads = IF em.err # "none" THEN em.loads
                                   ELSE em.loads + pn.loads,
                         !.prediction = IF exc = "none" THEN pn.prediction
                                        ELSE NoPred]
    /\ UNCHANGED <<callerDf, featRet, rawFile, featFile, modelFile, last>>

\* The requests tried: features of these lengths, feature_names omitted or one
\* of these lists
ServeFeatureLists ==
    { DefaultFeatures, <<"Close", "Volume">>, <<"Adj Close", "Close">> }
RequestLens == UNION { {Len(fl), Len(fl) + 1} : fl \in ServeFeatureLists }

\* POST /predict/custom
predict_custom ==
    /\ Started
    /\ \E nf \in RequestLens, named \in BOOLEAN, names \in ServeFeatureLists :
         LET em == EnsureModel(_model, modelFile)
             features == [i \in 1..nf |-> Num(i)]
             feature_names == IF named THEN names ELSE em.model.feature_names_in_
             exc == CASE em.err # "none" -> em.err
                      [] Len(features) # Len(feature_names) -> "HTTPException400"
                      [] Len(features) # Len(em.model.feature_names_in_) -> "ValueError"
                      [] OTHER -> "none"
         IN  /\ _model' = em.model
             /\ resp' = [NoResp EXCEPT
                           !.op = "custom", !.file = modelFile.st,
                           !.cached = _model # None,
                           !.features = features, !.named = named,
                           !.feature_names = IF named THEN names ELSE <<>>,
                           !.exc = exc, !.status = StatusCustom(exc),
                           !.loads = em.loads,
                           !.prediction =
                              IF exc = "none"
                              THEN [names |-> em.model.feature_names_in_,
                                    date |-> 0, x |-> features]
                              ELSE NoPred]
    /\ UNCHANGED <<callerDf, featRet, rawFile, featFile, modelFile, last>>

\* The pipeline runs beside the server and rewrites, truncates or removes the
\* files it owns.
ServeTables ==
    { derive(MkRaw(SmallRows, "zigzag", FALSE, 0)).df,
      derive(MkRaw(SmallRows, "rising", TRUE, 0)).df,
      dropna(derive(MkRaw(SmallRows, "zigzag", FALSE, 0)).df) }

ModelStoreChanges ==
    /\ modelFile' \in {NoPkl, CorruptPkl} \cup {PklFile(Fitted(fl)) : fl \in ServeFeatureLists}
    /\ modelFile' # modelFile
    /\ UNCHANGED <<callerDf, featRet, rawFile, featFile, last, _model, resp>>

FeatureStoreChanges ==
    /\ featFile' \in {Absent, Corrupt} \cup {CsvFile(t) : t \in ServeTables}
    /\ featFile' # featFile
    /\ UNCHANGED <<callerDf, featRet, rawFile, modelFile, last, _model, resp>>

Init ==
    /\ callerDf = NoTable
    /\ featRet = NoRet
    /\ rawFile = Absent
    /\ featFile = Absent
    /\ modelFile = NoPkl
    /\ last = NoLast
    /\ _model = None
    /\ resp = NoResp

\* The feature engine and the dataset builder on the tables of InputTables
NextFeat ==
    \/ CallerLoads
    \/ CallCreateFeatures
    \/ CallerDone
    \/ FixtureWritesRaw
    \/ build_features({FALSE}, {"ok"})
    \/ StageExit
    \/ Cleanup
SpecFeat == Init /\ [][NextFeat]_vars

\* The feature engine on the malformed tables of PartialTables
NextPartial ==
    \/ CallerLoadsPartial
    \/ CallCreateFeatures
    \/ CallerDone
SpecPartial == Init /\ [][NextPartial]_vars

\* The three stages in any order, with S3 on or off and every I/O outcome
PipeFeatureLists == { <<>>, <<"Close", "Volume">> }
PipeTestSizes == { 2 }
NextPipe ==
    \/ download_data(BOOLEAN, {"ok", "raise"}, {"ok", "fail"})
    \/ build_features(BOOLEAN, {"ok", "fail"})
    \/ train_model(BOOLEAN, PipeFeatureLists, PipeTestSizes, {"ok", "fail"})
    \/ StageExit
SpecPipe == Init /\ [][NextPipe]_vars

\* The trainer on the feature tables of TrainTables, every features_list and
\* every test_size
NextTrain ==
    \/ FixtureWritesFeatures
    \/ train_model({FALSE}, FeatureLists, TestSizes, {"ok"})
    \/ StageExit
    \/ Cleanup
SpecTrain == Init /\ [][NextTrain]_vars

\* The trainer, then the predictor on the model it saved (and on whatever
\* feature file is there), with and without a features_list of the caller's
NextPredict ==
    \/ FixtureWritesFeatures
    \/ train_model({FALSE}, FeatureLists, PipeTestSizes, {"ok"})
    \/ predict_main(FeatureLists)
    \/ StageExit
    \/ Cleanup
SpecPredict == Init /\ [][NextPredict]_vars

\* The server: startup, then requests in any order while the stored files
\* change
NextServe ==
    \/ load_model_on_startup
    \/ root
    \/ health_check
    \/ predict_next_day_price
    \/ predict_custom
    \/ ModelStoreChanges
    \/ FeatureStoreChanges
SpecServe == Init /\ [][NextServe]_vars

-----------------------------------------------------------------------------
(* Properties of the serving layer (SpecServe) *)

Prediction == resp.op \in {"predict", "custom"}

\* C1: GET /predict answers 404 whenever no model file exists at the model
\* path, whatever the cache holds and whatever was served before.
C1_PredictWithoutModelFileIs404 ==
    (resp.op = "predict" /\ resp.file = "absent") => resp.status = 404

\* the length the features of the last custom request are validated against
ExpectedLen ==
    IF resp.named THEN Len(resp.feature_names) ELSE Len(_model.feature_names_in_)

\* the last request was a custom request whose features do not have the length
\* of feature_names or, feature_names omitted, of the model's feature names
LengthMismatch ==
    /\ resp.op = "custom"
    /\ resp.named \/ _model # None
    /\ Len(resp.features) # ExpectedLen

\* C2 as stated: a custom request with a length mismatch is answered 400 in
\* every serving state.
C2_MismatchIsAlways400 == LengthMismatch => resp.status = 400

\* C2 as amended: a custom request with a length mismatch is answered 400 when
\* a model is cached or the model file can be loaded; a custom request that
\* finds no cached model is answered 404 when the model file is absent and 500
\* when it cannot be unpickled.
C2_MismatchIs400WithModel ==
    resp.op = "custom" =>
       /\ (resp.cached \/ resp.file = "pkl") /\ LengthMismatch => resp.status = 400
       /\ ~resp.cached /\ resp.file = "absent" => resp.status = 404
       /\ ~resp.cached /\ resp.file = "corrupt" => resp.status = 500

C2_Witness ==
    /\ LengthMismatch
    /\ ~resp.named
    /\ ~resp.cached /\ resp.file = "pkl"
    /\ resp.status = 400

\* C3: once the model is cached, a prediction request (GET /predict or POST
\* /predict/custom) does not read the model file again.
C3_CachedModelIsNotReadAgain == (Prediction /\ resp.cached) => resp.loads = 0

\* the class of the failure of the last request, as C4 names the classes
FailureClass(exc) ==
    CASE exc = "none" -> "none"
      [] exc \in {"HTTPException404", "FileNotFoundError"} -> "not-found"
      [] exc \in {"HTTPException400", "KeyError"} -> "validation"
      [] OTHER -> "other"

StatusOfClass(c) ==
    CASE c = "none" -> 200
      [] c = "not-found" -> 404
      [] c = "validation" -> 400
      [] OTHER -> 500

\* C4: the status of GET /predict and POST /predict/custom is decided by the
\* class of the failure: not-found 404, validation 400, anything else 500.
C4_StatusFollowsFailureClass ==
    Prediction => resp.status = StatusOfClass(FailureClass(resp.exc))

-----------------------------------------------------------------------------
(* Properties of the pipeline stages with S3 mirroring (SpecPipe) *)

\* the file the stage that ran writes, and the file it reads
StageOutput ==
    CASE last.stage = "download" -> rawFile
      [] last.stage = "build"    -> featFile
      [] OTHER                   -> modelFile
StageInput == IF last.stage = "build" THEN rawFile ELSE featFile

\* what the stage that ran saves locally
StageSaves ==
    IF last.stage = "train" THEN PklFile(last.model) ELSE CsvFile(last.ret)

\* C5: with S3 enabled, a failed upload after the local save leaves the stage
\* returning its result with the local file in place, and a failed download
\* makes build_features and train_model read the local path: the stage then
\* goes on with the local table, and raises the local read's error only when
\* the local file cannot be read either.
C5_MirrorFailuresDoNotAbort ==
    (last.stage # "none" /\ last.s3) =>
       /\ (last.saved /\ last.up = "fail") =>
             /\ last.status = "returned"
             /\ last.err = "none"
             /\ StageOutput = StageSaves
       /\ (last.stage \in {"build", "train"} /\ last.dl = "fail") =>
             /\ last.src = "local"
             /\ StageInput.st = "csv" =>
                   /\ last.loaded = read_csv(StageInput.body)
                   /\ last.err \notin {"FileNotFoundError", "ParserError"}
             /\ StageInput.st # "csv" =>
                   /\ last.status = "raised"
                   /\ last.err = LoadLocal(StageInput).err

C5_Witness ==
    /\ last.stage = "train" /\ last.s3
    /\ last.dl = "fail" /\ last.src = "local"
    /\ last.saved /\ last.up = "fail"
    /\ last.status = "returned"
    /\ modelFile = PklFile(last.model)

-----------------------------------------------------------------------------
(* Properties of the trainer (SpecTrain) *)

\* train_model got as far as the split
TrainSplit == last.stage = "train" /\ last.split_done

\* The two parts are the rows before and from split_idx of the retained rows,
\* disjoint, covering them, every training date before every evaluation date.
SplitIsChronologicalPartition ==
    LET n == NRows(last.data)
        s == last.split_idx
        X == Select(last.data, last.features_list)
        y == Select(last.data, <<"Target">>)
    IN  /\ s \in 0..n
        /\ last.X_train = Slice(X, 1, s) /\ last.y_train = Slice(y, 1, s)
        /\ last.X_test = Slice(X, s + 1, n) /\ last.y_test = Slice(y, s + 1, n)
        /\ last.X_train.dates \o last.X_test.dates = last.data.dates
        /\ Range(last.X_train.dates) \cap Range(last.X_test.dates) = {}
        /\ \A a \in Range(last.X_train.dates), b \in Range(last.X_test.dates) : a < b

\* split_idx is floor(N * (1 - test_size)) for test_size = k / TestSizeDen
SplitIsAtFloor ==
    LET n == NRows(last.data)
        s == last.split_idx
        k == last.test_size
    IN  /\ s * TestSizeDen <= n * (TestSizeDen - k)
        /\ n * (TestSizeDen - k) < (s + 1) * TestSizeDen

\* C6: train_model splits the N retained rows at index floor(N * (1 - test_size)):
\* training rows are the rows before it, evaluation rows the rows from it on,
\* disjoint, covering all N rows, no evaluation date before a training date.
C6_SplitAtFloorOfN ==
    TrainSplit => SplitIsAtFloor /\ SplitIsChronologicalPartition

\* C6, the part that holds: whatever the index, the split is a chronological
\* partition of the retained rows.
C6_SplitIsPartition == TrainSplit => SplitIsChronologicalPartition

\* the position in t of the row dated d
PosOf(t, d) == CHOOSE i \in 1..NRows(t) : t.dates[i] = d

\* row i of the loaded table has no label: it is the final row, or the next
\* row's Close is undefined
NoLabel(t, i) == i = NRows(t) \/ IsNaN(t.data["Close"][i + 1])

\* the label of each retained row is Close of the next row of the loaded table
LabelIsNextClose ==
    \A j \in 1..NRows(last.data) :
       LET i == PosOf(last.loaded, last.data.dates[j])
       IN  /\ i < NRows(last.loaded)
           /\ last.data.data["Target"][j] = last.loaded.data["Close"][i + 1]

\* the dates of the rows of the loaded table that are not in Discard
RetainedAre(Discard(_)) ==
    Range(last.data.dates) =
       { last.loaded.dates[i] : i \in { i \in 1..NRows(last.loaded) : ~Discard(i) } }

\* C7 as stated: the label of a retained row is the next row's Close, and the
\* discarded rows are the final row and the rows with an undefined value among
\* the selected features or the label.
C7_DiscardsUndefinedSelected ==
    TrainSplit =>
       /\ LabelIsNextClose
       /\ RetainedAre(LAMBDA i :
             \/ NoLabel(last.loaded, i)
             \/ \E c \in Range(last.features_list) : IsNaN(last.loaded.data[c][i]))

\* C7 as amended: the label of a retained row is the next row's Close, and the
\* discarded rows are the final row and the rows with an undefined value in
\* any column of the loaded table, selected or not, or in the label.
C7_DiscardsUndefinedAnywhere ==
    TrainSplit =>
       /\ LabelIsNextClose
       /\ RetainedAre(LAMBDA i : NoLabel(last.loaded, i) \/ RowHasNaN(last.loaded, i))

C7_Witness ==
    /\ TrainSplit
    /\ last.features_list = <<"Close">>
    /\ NRows(last.data) >= 2
    /\ NRows(last.data) < NRows(last.loaded) - 1
    /\ \E i \in 1..(NRows(last.loaded) - 1) :
          /\ IsNaN(last.loaded.data["Volume"][i])
          /\ ~IsNaN(last.loaded.data["Close"][i])
          /\ ~NoLabel(last.loaded, i)

-----------------------------------------------------------------------------
(* Properties of the feature engine and the dataset builder (SpecFeat) *)

\* create_features has been called and has returned
Called == featRet # NoRet /\ featRet.err = "none"

NonDegenerate(t) ==
    \A i \in 1..NRows(t) : RatLt(t.data["Low"][i], t.data["High"][i])

\* column c of the returned table is undefined in its first n rows and defined
\* in every later row
WarmUp(c, n) ==
    \A i \in 1..NRows(featRet.df) : IsNaN(featRet.df.data[c][i]) <=> i <= n

BuiltExample ==
    /\ last.stage = "build" /\ last.status = "returned" /\ last.dropna
    /\ NRows(last.loaded) = ExampleRows

\* the loaded table has no undefined cell
Complete(t) == \A i \in 1..NRows(t) : ~RowHasNaN(t, i)

\* C10 as stated: from 100 rows, build_features with dropna leaves at most 70
\* rows and reports 100 minus the rows kept as dropped.
C10_KeepsAtMost70 ==
    BuiltExample =>
       /\ NRows(last.ret) <= ExampleRows - WinMA30
       /\ last.dropped = ExampleRows - NRows(last.ret)

\* C10 as amended: from 100 rows, build_features with dropna leaves at most 71
\* rows (the 30-day moving average is undefined in 29 rows), exactly 71 for a
\* complete non-degenerate input, and reports 100 minus the rows kept as
\* dropped.
C10_KeepsAtMost71 ==
    BuiltExample =>
       /\ NRows(last.ret) <= ExampleRows - (WinMA30 - 1)
       /\ (Complete(last.loaded) /\ NonDegenerate(last.loaded)) =>
             NRows(last.ret) = ExampleRows - (WinMA30 - 1)
       /\ last.dropped = ExampleRows - NRows(last.ret)
       /\ featFile = CsvFile(last.ret)

C10_Witness ==
    /\ BuiltExample
    /\ NonDegenerate(last.loaded)
    /\ NRows(last.ret) = ExampleRows - WinMA30 + 1
    /\ last.dropped = WinMA30 - 1

-----------------------------------------------------------------------------
(* Properties of the predictor (SpecPredict) *)

\* train_model returned; predict_next_day returned
Trained == last.stage = "train" /\ last.status = "returned"
Predicted == last.stage = "predict" /\ last.status = "returned"

\* the model saved by the run records, and gives back when reloaded, the
\* features_list the run used, in its order
SavedModelRecordsFeatures ==
    /\ modelFile.st = "pkl"
    /\ load_model(modelFile).err = "none"
    /\ load_model(modelFile).model.feature_names_in_ = last.features_list
    /\ last.features_list # <<>>
    /\ last.X_train.cols = last.features_list

\* the rows handed to model.predict are the last row of the loaded table and
\* nothing else, with the columns `names` in that order
PredictsFromLastRow(names) ==
    LET n == NRows(last.loaded)
    IN  /\ last.loaded = read_csv(featFile.body)
        /\ NRows(last.latest_features) = 1
        /\ last.latest_features.dates = <<last.loaded.dates[n]>>
        /\ last.latest_features.cols = names
        /\ \A c \in Range(names) :
              last.latest_features.data[c] = <<last.loaded.data[c][n]>>

\* C11: predict_next_day predicts from exactly one row, the last row of the
\* loaded feature table; given no features_list it takes the columns named in
\* the model's recorded feature names, in the recorded order, and that record
\* is the features_list train_model ran with, as saved and as reloaded.
C11_PredictsFromLastRowWithModelFeatures ==
    /\ Trained => SavedModelRecordsFeatures
    /\ Predicted =>
          /\ last.model = load_model(modelFile).model
          /\ PredictsFromLastRow(IF last.features_list = <<>>
                                 THEN modelFile.model.feature_names_in_
                                 ELSE last.features_list)

C11_Witness ==
    /\ Predicted
    /\ last.features_list = <<>>
    /\ modelFile.model.feature_names_in_ = <<"Close", "Volume">>
    /\ NRows(last.loaded) >= 2
    /\ last.latest_features.cols = <<"Close", "Volume">>
    /\ last.latest_features.dates[1] = last.loaded.dates[NRows(last.loaded)]

-----------------------------------------------------------------------------
(* Properties of the feature engine on malformed input (SpecPartial) *)

\* create_features was called on a table without one of the required columns
CalledOnPartial ==
    featRet # NoRet /\ ~(RequiredCols \subseteq Range(featRet.arg.cols))

\* C12: create_features on a table that lacks one of Open, High, Low, Close,
\* Volume fails with a missing-column error and returns no table.
C12_MissingColumnFails ==
    CalledOnPartial => featRet.err = "KeyError" /\ featRet.df = NoTable

\* C12, the part that holds: without Close, High or Low the call fails with
\* KeyError, returns no table and leaves the caller's table as it was.
C12_MissingReadColumnFails ==
    (CalledOnPartial /\ ~(ReadCols \subseteq Range(featRet.arg.cols))) =>
       /\ featRet.err = "KeyError" /\ featRet.df = NoTable
       /\ callerDf = featRet.arg

-----------------------------------------------------------------------------
(* Properties of the optional filter of build_features (SpecPipe) *)

\* build_features ran with dropna and returned
BuiltFiltered == last.stage = "build" /\ last.status = "returned" /\ last.dropna

\* every row of `out` is a row of t, and the rows of `out` come in the order
\* they have in t
IsSubsequence(out, t) ==
    /\ out.cols = t.cols
    /\ \A j \in 1..NRows(out) :
          /\ \E i \in 1..NRows(t) : t.dates[i] = out.dates[j]
          /\ Row(out, j) = Row(t, PosOf(t, out.dates[j]))
    /\ \A j \in 1..(NRows(out) - 1) :
          PosOf(t, out.dates[j]) < PosOf(t, out.dates[j + 1])

\* C13: discarding the rows with undefined values (build_features with dropna)
\* gives a table with no more rows than the feature table had, with no
\* undefined cell left, whose rows are a subsequence of the feature table's
\* rows in their order.
C13_FilterKeepsDefinedRowsInOrder ==
    BuiltFiltered =>
       LET before == create_features(last.loaded).df
       IN  /\ NRows(before) = NRows(last.loaded)
           /\ NRows(last.ret) <= NRows(before)
           /\ \A i \in 1..NRows(last.ret) : ~RowHasNaN(last.ret, i)
           /\ IsSubsequence(last.ret, before)

C13_Witness ==
    /\ BuiltFiltered
    /\ NRows(last.ret) >= 2
    /\ NRows(last.ret) < NRows(last.loaded)
    /\ \E j \in 1..(NRows(last.ret) - 1) : last.ret.dates[j + 1] > last.ret.dates[j] + 1

-----------------------------------------------------------------------------
(* Properties of the server's model cache (SpecServe) *)

\* a step keeps a populated cache as it is, and populates an empty one only
\* with the model a successful load_model of the model file gives
CacheStep ==
    /\ _model # None => _model' = _model
    /\ (_model = None /\ _model' # None) =>
          /\ load_model(modelFile).err = "none"
          /\ _model' = load_model(modelFile).model

\* /health reports model_loaded as the cache is
HealthReportsCache ==
    resp.op = "health" => resp.model_loaded = (_model # None)

\* C14: the cached model is a single slot with no eviction: it is populated
\* only by a successful load_model, once populated it is never cleared or
\* replaced, whatever requests arrive and however the stored files change, so
\* model_loaded of /health never goes from true back to false.
C14_CacheIsNeverClearedOrReplaced ==
    [][CacheStep]_vars /\ []HealthReportsCache

C14_Witness ==
    /\ resp.op = "health" /\ resp.model_loaded
    /\ _model # None
    /\ modelFile.st = "absent"

-----------------------------------------------------------------------------
(* Properties of the stages whose source cannot be loaded (SpecPipe) *)

\* the error of reading a file that is absent or cannot be parsed
ReadError(file) == IF file.st = "absent" THEN "FileNotFoundError" ELSE "ParserError"

\* the step is a run of `stage` whose source `file` is absent or unreadable
\* and which gets no table from the bucket either (S3 off, or the download
\* failed)
LoadFails(stage, file) ==
    /\ last.stage = "none" /\ last'.stage = stage
    /\ file.st # "csv"
    /\ last'.s3 => last'.dl = "fail"

\* the run raises the read's error and no file is created or modified
RaisesAndTouchesNothing(file) ==
    /\ last'.status = "raised"
    /\ last'.err = ReadError(file)
    /\ ~last'.saved
    /\ rawFile' = rawFile /\ featFile' = featFile /\ modelFile' = modelFile

LoadFailureStep ==
    /\ LoadFails("build", rawFile) => RaisesAndTouchesNothing(rawFile)
    /\ LoadFails("train", featFile) => RaisesAndTouchesNothing(featFile)

\* C15: build_features and train_model load their input before they touch
\* their output: when the source is absent or unreadable and no remote copy
\* is loaded, the error reaches the caller and the feature file / the model
\* file is neither created nor modified.
C15_FailedLoadLeavesOutputUntouched == [][LoadFailureStep]_vars

\* build_features has raised on an unreadable source while a feature file of
\* an earlier run is in place
C15_Witness ==
    /\ last.stage = "build" /\ last.status = "raised"
    /\ last.err = "ParserError"
    /\ rawFile.st = "corrupt"
    /\ featFile.st = "csv"

====
